---- MODULE Spec2Model ----
(***************************************************************************)
(* Model of socstatspy: the identifier normalizer (utils.format_id_list),  *)
(* the request executor and pagination driver of SocstatsClient, the       *)
(* variable-values lookup, and the metadata cache and the label           *)
(* enrichment of DataFetcher.                                              *)
(*                                                                         *)
(* Python values are records [t |-> type name, v |-> payload sequence]:    *)
(*   int   v = <<n>>            str   v = sequence of one-character strings *)
(*   list / tuple  v = sequence of int and str values                      *)
(*   range v = <<start, stop>>  dict, float, NoneType  v = <<>>            *)
(* An Optional[...] argument that is not a filter value is <<>> for None   *)
(* and <<x>> for the value x.                                              *)
(***************************************************************************)
EXTENDS Integers, Sequences, FiniteSets, TLC

VARIABLES
    normIn,      \* format_id_list: the argument ids
    normOut,     \* format_id_list: <<>> before the call, <<outcome>> after it
    cfg,         \* client call: constructor and call arguments
    server,      \* the upstream service: the page chain it serves
    pc,          \* client call: "idle", "req", "done", "raised"
    attempt,     \* _make_request: the loop variable attempt
    url,         \* _make_request: the URL of the call in progress
    params,      \* _make_request: the query parameters of the call in progress
    result,      \* get_data: result (<<>> is Python None), or the returned body
    all_data,    \* get_data: all_data
    page_count,  \* get_data: page_count
    exc,         \* the exception class that left the call, "" if none
    paginated,   \* get_data: TRUE once the pagination branch was entered
    nRequests,   \* history: number of _make_request calls of this client call
    nAttempts,   \* history: HTTP attempts of the _make_request call in progress
    nFailures,   \* history: transport failures of the _make_request call in progress
    nDelays,     \* history: time.sleep(RETRY_DELAY) calls of the call in progress
    lastStatus,  \* history: status of the last response received, 0 if none yet
    cache,       \* DataFetcher._metadata_cache: subject -> <<>> or <<mapping>>
    upstream,    \* metadata endpoints of the service: which requests fail now
    lastOp,      \* resolver: the operation that ran last and what it requested
    prevOp,      \* resolver: the operation that ran before it
    lastRet,     \* resolver: the mapping the last resolve returned
    prevRet,     \* resolver: the mapping the resolve before it returned
    fresh,       \* history: subjects not resolved since construction or clear()
    df,          \* enrichment: the table the caller holds
    metadata,    \* enrichment: the metadata mapping, variable name -> table
    enriched     \* enrichment: the tables returned so far, in call order

normVars   == <<normIn, normOut>>
clientVars == <<cfg, server, pc, attempt, url, params, result, all_data,
                page_count, exc, paginated, nRequests, nAttempts, nFailures,
                nDelays, lastStatus>>
cacheVars  == <<cache, upstream, lastOp, prevOp, lastRet, prevRet, fresh>>
enrichVars == <<df, metadata, enriched>>
vars       == <<normVars, clientVars, cacheVars, enrichVars>>

----------------------------------------------------------------------------
(* Bounds of the model *)
MaxElems   == 2      \* longest list, tuple or range given as a filter value
MaxPages   == 3      \* longest page chain the service serves
MaxRecs    == 2      \* most records on one page
MaxFetch   == 5      \* pages followed on a chain that never ends
MaxBudget  == 4      \* largest max_retries given to the constructor

(* Program constants *)
MAX_RETRIES    == 3
RETRY_DELAY    == 2
PerSidaDefault == 5000

----------------------------------------------------------------------------
(* Python values *)
NoneV      == [t |-> "NoneType", v |-> <<>>]
PyInt(n)   == [t |-> "int", v |-> <<n>>]
PyStr(s)   == [t |-> "str", v |-> s]
PyList(xs) == [t |-> "list", v |-> xs]
PyTuple(xs) == [t |-> "tuple", v |-> xs]
PyRange(a, b) == [t |-> "range", v |-> <<a, b>>]
PyDict     == [t |-> "dict", v |-> <<>>]
PyFloat    == [t |-> "float", v |-> <<>>]

Digits == <<"0", "1", "2", "3", "4", "5", "6", "7", "8", "9">>

RECURSIVE NatToStr(_)
NatToStr(n) ==
    IF n < 10 THEN <<Digits[n + 1]>>
    ELSE NatToStr(n \div 10) \o <<Digits[(n % 10) + 1]>>

\* str(i) for an int i
IntToStr(n) == IF n < 0 THEN <<"-">> \o NatToStr(0 - n) ELSE NatToStr(n)

\* str(x) for an int or a str x
PyStrOf(x) == IF x.t = "int" THEN IntToStr(x.v[1]) ELSE x.v

\* the elements a list, a tuple or a range yields when iterated
RECURSIVE RangeElems(_, _)
RangeElems(a, b) == IF a >= b THEN <<>> ELSE <<PyInt(a)>> \o RangeElems(a + 1, b)

IterElems(x) == IF x.t = "range" THEN RangeElems(x.v[1], x.v[2]) ELSE x.v

\* sep.join(strs)
RECURSIVE Join(_, _)
Join(strs, sep) ==
    IF strs = <<>> THEN <<>>
    ELSE IF Len(strs) = 1 THEN strs[1]
    ELSE strs[1] \o sep \o Join(Tail(strs), sep)

\* s.split(c) for a one-character separator c
RECURSIVE Split(_, _)
Split(s, c) ==
    IF \A i \in 1..Len(s) : s[i] # c THEN <<s>>
    ELSE LET k == CHOOSE i \in 1..Len(s) :
                      s[i] = c /\ \A j \in 1..(i - 1) : s[j] # c
         IN  <<SubSeq(s, 1, k - 1)>> \o Split(SubSeq(s, k + 1, Len(s)), c)

Returned(s) == [exc |-> "", s |-> s]
Raised(e)   == [exc |-> e, s |-> <<>>]

\* format_id_list joining with ', ' in place of ','
format_id_list_Spaced(ids) ==
    IF ids.t \in {"int", "str"} THEN Returned(PyStrOf(ids))
    ELSE IF ids.t \in {"list", "tuple", "range"}
         THEN Returned(Join([i \in 1..Len(IterElems(ids)) |->
                                 PyStrOf(IterElems(ids)[i])], <<",", " ">>))
         ELSE Raised("ValueError")

\* format_id_list without its else branch: any other type gives ''
format_id_list_Lax(ids) ==
    IF ids.t \in {"int", "str"} THEN Returned(PyStrOf(ids))
    ELSE IF ids.t \in {"list", "tuple", "range"}
         THEN Returned(Join([i \in 1..Len(IterElems(ids)) |->
                                 PyStrOf(IterElems(ids)[i])], <<",">>))
         ELSE Returned(<<>>)

\* utils.format_id_list
format_id_list(ids) ==
    IF ids.t \in {"int", "str"} THEN Returned(PyStrOf(ids))
    ELSE IF ids.t \in {"list", "tuple", "range"}
         THEN Returned(Join([i \in 1..Len(IterElems(ids)) |->
                                 PyStrOf(IterElems(ids)[i])], <<",">>))
         ELSE Raised("ValueError")

----------------------------------------------------------------------------
(* The exception classes of exceptions.py and the builtins they meet *)
ExcParent ==
    [e \in {"SocstatsAPIError", "SocstatsValidationError",
            "SocstatsRateLimitError", "SocstatsNotFoundError",
            "SocstatsPaginationError", "ValueError", "AttributeError",
            "Exception"} |->
        CASE e = "SocstatsAPIError"        -> "Exception"
          [] e = "SocstatsValidationError" -> "SocstatsAPIError"
          [] e = "SocstatsRateLimitError"  -> "SocstatsAPIError"
          [] e = "SocstatsNotFoundError"   -> "SocstatsAPIError"
          [] e = "SocstatsPaginationError" -> "SocstatsAPIError"
          [] e = "ValueError"              -> "Exception"
          [] e = "AttributeError"          -> "Exception"
          [] OTHER                         -> ""]

\* would `except base` catch an exception of class e
RECURSIVE CaughtBy(_, _)
CaughtBy(e, base) ==
    IF e = base THEN TRUE
    ELSE IF e \notin DOMAIN ExcParent \/ ExcParent[e] = "" THEN FALSE
    ELSE CaughtBy(ExcParent[e], base)

----------------------------------------------------------------------------
(* Python truthiness *)
\* bool(o) for an Optional[int] argument o
Truthy(o) == o # <<>> /\ o[1] # 0

\* bool(x) for a Python value x
PyTruthy(x) ==
    CASE x.t = "int"                      -> x.v[1] # 0
      [] x.t \in {"str", "list", "tuple"} -> x.v # <<>>
      [] x.t = "range"                    -> x.v[1] < x.v[2]
      [] x.t = "dict"                     -> FALSE
      [] OTHER                            -> FALSE

----------------------------------------------------------------------------
(* SocstatsClient: construction and URL building *)
BASE_URL == <<"h", "t", "t", "p", "s", ":", "/", "/", "s", "d", "b", ".", "s", "o", "c", "i", "a", "l", "s", "t", "y", "r", "e", "l", "s", "e", "n", ".", "s", "e", "/", "a", "p", "i">>
DEFAULT_VERSION  == <<"v", "1">>
DEFAULT_LANGUAGE == <<"s", "v">>
Resultat == <<"r", "e", "s", "u", "l", "t", "a", "t">>
Matt     == <<"m", "a", "t", "t">>
Text     == <<"t", "e", "x", "t">>
Amning   == <<"a", "m", "n", "i", "n", "g">>
Region   == <<"r", "e", "g", "i", "o", "n">>
Ar       == <<"a", "r">>
Kon      == <<"k", "o", "n">>

\* self.max_retries as __init__ sets it
max_retries ==
    IF Truthy(cfg.max_retries) THEN cfg.max_retries[1] ELSE MAX_RETRIES

\* [str(p) for p in parts if p]
RECURSIVE FilterEmpty(_)
FilterEmpty(parts) ==
    IF parts = <<>> THEN <<>>
    ELSE IF Head(parts) = <<>> THEN FilterEmpty(Tail(parts))
    ELSE <<Head(parts)>> \o FilterEmpty(Tail(parts))

\* SocstatsClient._build_url
_build_url(parts) ==
    IF FilterEmpty(parts) = <<>> THEN BASE_URL
    ELSE BASE_URL \o <<"/">> \o Join(FilterEmpty(parts), <<"/">>)

----------------------------------------------------------------------------
(* The upstream service *)
NPages == Len(server.sizes)

\* the next-page URL the service hands out for page i
PageUrl(i) == <<"u">> \o NatToStr(i)

\* the page a request addresses
PageOf(u, p) ==
    IF \E i \in 1..NPages : u = PageUrl(i)
    THEN CHOOSE i \in 1..NPages : u = PageUrl(i)
    ELSE IF p.sida # <<>> /\ p.sida[1] \in 1..NPages THEN p.sida[1]
    ELSE 1

\* the JSON body of page i of the data endpoint
ServedPage(i) ==
    [data       |-> [j \in 1..server.sizes[i] |-> <<i, j>>],
     nasta_sida |-> IF i < NPages THEN <<PageUrl(i + 1)>>
                    ELSE IF server.endless THEN <<PageUrl(i)>> ELSE <<>>,
     sida       |-> <<i>>,
     per_sida   |-> <<cfg.per_sida>>,
     sidor      |-> <<NPages>>]

\* the JSON array a metadata endpoint returns, in the same record shape
ValuesBody ==
    [data |-> <<<<0, 1>>, <<0, 2>>>>, nasta_sida |-> <<>>, sida |-> <<>>,
     per_sida |-> <<>>, sidor |-> <<>>]

\* response.json() of a response with status < 400
ServedBody(u, p) ==
    IF cfg.op = "get_variable_values" THEN ValuesBody
    ELSE ServedPage(PageOf(u, p))

----------------------------------------------------------------------------
(* SocstatsClient.get_data: the path segments *)
\* the loop over filters.items(): the segments added, or the first error
RECURSIVE FilterParts(_)
FilterParts(fs) ==
    IF fs = <<>> THEN [exc |-> "", parts |-> <<>>]
    ELSE IF Head(fs).value = NoneV THEN FilterParts(Tail(fs))
    ELSE IF format_id_list(Head(fs).value).exc # ""
         THEN [exc |-> format_id_list(Head(fs).value).exc, parts |-> <<>>]
    ELSE [exc   |-> FilterParts(Tail(fs)).exc,
          parts |-> <<Head(fs).key, format_id_list(Head(fs).value).s>>
                        \o FilterParts(Tail(fs)).parts]

\* parts as get_data builds it before the first request
DataParts ==
    IF cfg.matt # NoneV /\ format_id_list(cfg.matt).exc # ""
    THEN [exc |-> format_id_list(cfg.matt).exc, parts |-> <<>>]
    ELSE [exc   |-> FilterParts(cfg.filters).exc,
          parts |-> <<DEFAULT_VERSION, DEFAULT_LANGUAGE, cfg.subject, Resultat>>
                    \o (IF cfg.matt # NoneV
                        THEN <<Matt, format_id_list(cfg.matt).s>> ELSE <<>>)
                    \o FilterParts(cfg.filters).parts]

\* params as get_data builds it
DataParams ==
    [per_sida |-> IF cfg.per_sida # PerSidaDefault THEN <<cfg.per_sida>> ELSE <<>>,
     sida     |-> cfg.sida]

NoParams == [per_sida |-> <<>>, sida |-> <<>>]

(* SocstatsClient.get_variable_values: validation and path segments *)
BothFilters == PyTruthy(cfg.ids) /\ PyTruthy(cfg.text_filter)

ValueParts ==
    <<DEFAULT_VERSION, DEFAULT_LANGUAGE, cfg.subject, cfg.variable>>
    \o (IF PyTruthy(cfg.ids)
        THEN <<IF cfg.ids.t = "list"
               THEN Join([i \in 1..Len(cfg.ids.v) |-> PyStrOf(cfg.ids.v[i])], <<",">>)
               ELSE cfg.ids.v>>
        ELSE IF PyTruthy(cfg.text_filter) THEN <<Text, cfg.text_filter.v>>
        ELSE <<>>)

----------------------------------------------------------------------------
(* History of one _make_request call: attempts, transport failures, delays *)
NoHist == [a |-> 0, f |-> 0, d |-> 0, st |-> 0]
Hist(h) ==
    /\ nAttempts' = h.a
    /\ nFailures' = h.f
    /\ nDelays' = h.d
    /\ lastStatus' = h.st

\* a new _make_request call starts
StartRequest(u, p, res, ad, pcnt, pag) ==
    /\ pc' = "req"
    /\ attempt' = 0
    /\ url' = u
    /\ params' = p
    /\ nRequests' = nRequests + 1
    /\ Hist(NoHist)
    /\ result' = res
    /\ all_data' = ad
    /\ page_count' = pcnt
    /\ paginated' = pag
    /\ exc' = ""

\* the client call returns res
Finish_DropsData(res, h) ==
    /\ pc' = "done"
    /\ result' = IF res = <<>> THEN res ELSE <<[res[1] EXCEPT !.data = <<>>]>>
    /\ Hist(h)
    /\ UNCHANGED <<attempt, url, params, nRequests, all_data, page_count,
                   paginated, exc>>

Finish(res, h) ==
    /\ pc' = "done"
    /\ result' = res
    /\ Hist(h)
    /\ UNCHANGED <<attempt, url, params, nRequests, all_data, page_count,
                   paginated, exc>>

\* the client call is left by an exception of class e
Raise_ReturnsPartial(e, h) ==
    /\ pc' = IF paginated THEN "done" ELSE "raised"
    /\ exc' = IF paginated THEN "" ELSE e
    /\ Hist(h)
    /\ UNCHANGED <<attempt, url, params, nRequests, result, all_data,
                   page_count, paginated>>

Raise(e, h) ==
    /\ pc' = "raised"
    /\ exc' = e
    /\ Hist(h)
    /\ UNCHANGED <<attempt, url, params, nRequests, result, all_data,
                   page_count, paginated>>

----------------------------------------------------------------------------
(* SocstatsClient.get_data: the pagination driver *)
\* the pagination condition without its test of sida
ShouldPaginate_AnySida(res) ==
    cfg.auto_paginate /\ res.nasta_sida # <<>>

\* the condition of the pagination branch
ShouldPaginate(res) ==
    cfg.auto_paginate /\ res.nasta_sida # <<>> /\ cfg.sida = <<>>

\* the condition of the break in the loop
CapReached_Never(pcnt) == FALSE

CapReached(pcnt) == Truthy(cfg.max_pages) /\ pcnt >= cfg.max_pages[1]

\* the new page's records put in front of all_data
Extend_Front(ad, res) == res.data \o ad

\* all_data.extend(result.get('data', []))
Extend(ad, res) == ad \o res.data

\* the result with the page accounting of the last response left in place
Aggregate_Stale(res, ad, pcnt) ==
    [res EXCEPT !.data = ad, !.sida = <<1>>]

\* the result as the pagination branch leaves it
Aggregate(res, ad, pcnt) ==
    [res EXCEPT !.data = ad, !.sida = <<1>>, !.per_sida = <<Len(ad)>>,
                !.sidor = <<pcnt>>]

\* one evaluation of the while loop: request the next page, or leave the loop
LoopHead_KeepsParams(res, ad, pcnt, h) ==
    IF res.nasta_sida # <<>> /\ ~CapReached(pcnt)
    THEN /\ pcnt < MaxFetch
         /\ StartRequest(res.nasta_sida[1], params, <<res>>, ad, pcnt + 1, TRUE)
    ELSE /\ pc' = "done"
         /\ result' = <<Aggregate(res, ad, pcnt)>>
         /\ all_data' = ad
         /\ page_count' = pcnt
         /\ paginated' = TRUE
         /\ Hist(h)
         /\ UNCHANGED <<attempt, url, params, nRequests, exc>>

LoopHead(res, ad, pcnt, h) ==
    IF res.nasta_sida # <<>> /\ ~CapReached(pcnt)
    THEN /\ pcnt < MaxFetch
         /\ StartRequest(res.nasta_sida[1], NoParams, <<res>>, ad, pcnt + 1, TRUE)
    ELSE /\ pc' = "done"
         /\ result' = <<Aggregate(res, ad, pcnt)>>
         /\ all_data' = ad
         /\ page_count' = pcnt
         /\ paginated' = TRUE
         /\ Hist(h)
         /\ UNCHANGED <<attempt, url, params, nRequests, exc>>

\* get_data after _make_request returned body for the first request
AfterFirstPage(body, h) ==
    IF ~cfg.auto_paginate THEN Finish(body, h)
    ELSE IF body = <<>> THEN Raise("AttributeError", h)
    ELSE IF ~ShouldPaginate(body[1]) THEN Finish(body, h)
    ELSE LoopHead(body[1], body[1].data, 1, h)

\* get_data after a next-page request, with the new page's link forgotten
AfterNextPage_ForgetsLink(body, h) ==
    IF body = <<>> THEN Raise("AttributeError", h)
    ELSE LoopHead([body[1] EXCEPT !.nasta_sida = <<>>],
                  Extend(all_data, body[1]), page_count, h)

\* get_data after _make_request returned body for a next-page request
AfterNextPage(body, h) ==
    IF body = <<>> THEN Raise("AttributeError", h)
    ELSE LoopHead(body[1], Extend(all_data, body[1]), page_count, h)

\* _make_request returns body (<<>> is None) to the method that called it
Return(body, h) ==
    IF cfg.op = "get_variable_values" THEN Finish(body, h)
    ELSE IF ~paginated THEN AfterFirstPage(body, h)
    ELSE AfterNextPage(body, h)

----------------------------------------------------------------------------
(* SocstatsClient._make_request *)
\* the status mapping without its 429 branch
StatusException_No429(st) ==
    CASE st = 404  -> "SocstatsNotFoundError"
      [] st >= 400 /\ st # 404 /\ st # 429 -> "SocstatsAPIError"
      [] OTHER     -> ""

\* the exception a response status is turned into, "" for none
StatusException(st) ==
    CASE st = 404  -> "SocstatsNotFoundError"
      [] st = 429  -> "SocstatsRateLimitError"
      [] st >= 400 /\ st # 404 /\ st # 429 -> "SocstatsAPIError"
      [] OTHER     -> ""

\* the retry test off by one
RetryAllowed_OffByOne(a) == a < max_retries

\* the test of both except clauses: sleep and go on, or give up
RetryAllowed(a) == a < max_retries - 1

\* one pass of the loop body in which the session returns a response
Respond(st) ==
    /\ pc = "req"
    /\ attempt < max_retries
    /\ LET h == [a |-> nAttempts + 1, f |-> nFailures, d |-> nDelays, st |-> st]
       IN  IF StatusException(st) # ""
           THEN Raise(StatusException(st), h)
           ELSE Return(<<ServedBody(url, params)>>, h)
    /\ UNCHANGED <<cfg, server, normVars, cacheVars, enrichVars>>

RespondSuccess == \E st \in {200, 399} : Respond(st)
RespondNotFound == Respond(404)
RespondRateLimited == Respond(429)
RespondError == \E st \in {400, 500} : Respond(st)

\* one pass of the loop body in which the session raises Timeout or another
\* RequestException
TransportFailure ==
    /\ pc = "req"
    /\ attempt < max_retries
    /\ IF RetryAllowed(attempt)
       THEN /\ attempt' = attempt + 1
            /\ Hist([a |-> nAttempts + 1, f |-> nFailures + 1,
                     d |-> nDelays + 1, st |-> 0])
            /\ UNCHANGED <<pc, url, params, nRequests, result, all_data,
                           page_count, paginated, exc>>
       ELSE Raise("SocstatsAPIError",
                  [a |-> nAttempts + 1, f |-> nFailures + 1,
                   d |-> nDelays, st |-> 0])
    /\ UNCHANGED <<cfg, server, normVars, cacheVars, enrichVars>>

\* range(self.max_retries) is used up: the method falls off its end
ExecLoopEnd ==
    /\ pc = "req"
    /\ attempt >= max_retries
    /\ Return(<<>>, [a |-> nAttempts, f |-> nFailures, d |-> nDelays,
                     st |-> lastStatus])
    /\ UNCHANGED <<cfg, server, normVars, cacheVars, enrichVars>>

----------------------------------------------------------------------------
(* The calls of the client *)
\* get_data up to its first _make_request
GetDataCall ==
    /\ pc = "idle"
    /\ cfg.op = "get_data"
    /\ IF DataParts.exc # ""
       THEN Raise(DataParts.exc, NoHist)
       ELSE StartRequest(_build_url(DataParts.parts), DataParams,
                         <<>>, <<>>, 0, FALSE)
    /\ UNCHANGED <<cfg, server, normVars, cacheVars, enrichVars>>

\* get_variable_values up to its _make_request
GetVariableValuesCall ==
    /\ pc = "idle"
    /\ cfg.op = "get_variable_values"
    /\ IF BothFilters
       THEN Raise("SocstatsValidationError", NoHist)
       ELSE StartRequest(_build_url(ValueParts), NoParams, <<>>, <<>>, 0, FALSE)
    /\ UNCHANGED <<cfg, server, normVars, cacheVars, enrichVars>>

----------------------------------------------------------------------------
(* The normalizer applied to one input *)
Normalize ==
    /\ normOut = <<>>
    /\ normOut' = <<format_id_list(normIn)>>
    /\ UNCHANGED <<normIn, clientVars, cacheVars, enrichVars>>

----------------------------------------------------------------------------
(* DataFetcher: the metadata resolver and its cache *)
Subjects  == {"dodsorsaker", "amning"}
Variables == {"kon", "region", "ar"}

\* the body of the variable-list endpoint: the 'namn' of each entry, "" when
\* the entry has none
VariableList(s) ==
    IF s = "dodsorsaker" THEN <<"kon", "", "region", "ar">> ELSE <<"ar", "kon">>

\* the body of the values endpoint of variable v
ValueTable(s, v) ==
    CASE v = "kon" -> <<[id |-> 1, text |-> "Man"], [id |-> 2, text |-> "Kvinna"]>>
      [] v = "ar"  -> IF s = "amning" THEN <<[id |-> 2020, text |-> "2020"]>>
                      ELSE <<[id |-> 2019, text |-> "2019"],
                             [id |-> 2020, text |-> "2020"]>>
      [] OTHER     -> <<>>

EmptyMapping == <<>>

\* the loop without its inner try: the first failing variable ends it
RECURSIVE ResolveLoop_Abort(_, _, _, _)
ResolveLoop_Abort(s, names, md, reqs) ==
    IF names = <<>> THEN [md |-> md, reqs |-> reqs]
    ELSE IF Head(names) = "" THEN ResolveLoop_Abort(s, Tail(names), md, reqs)
    ELSE IF Head(names) \in upstream.valuesDown
         THEN [md |-> md, reqs |-> Append(reqs, Head(names))]
    ELSE IF ValueTable(s, Head(names)) = <<>>
         THEN ResolveLoop_Abort(s, Tail(names), md, Append(reqs, Head(names)))
    ELSE ResolveLoop_Abort(s, Tail(names),
                           (Head(names) :> ValueTable(s, Head(names))) @@ md,
                           Append(reqs, Head(names)))

\* the loop over variables: md is metadata so far, reqs the variables whose
\* values were requested so far
RECURSIVE ResolveLoop(_, _, _, _)
ResolveLoop(s, names, md, reqs) ==
    IF names = <<>> THEN [md |-> md, reqs |-> reqs]
    ELSE IF Head(names) = "" THEN ResolveLoop(s, Tail(names), md, reqs)
    ELSE IF Head(names) \in upstream.valuesDown
         THEN ResolveLoop(s, Tail(names), md, Append(reqs, Head(names)))
    ELSE IF ValueTable(s, Head(names)) = <<>>
         THEN ResolveLoop(s, Tail(names), md, Append(reqs, Head(names)))
    ELSE ResolveLoop(s, Tail(names),
                     (Head(names) :> ValueTable(s, Head(names))) @@ md,
                     Append(reqs, Head(names)))

\* the miss path with the variable loop run even though the list request failed
FetchMetadata_LoopAnyway(s) ==
    ResolveLoop(s, VariableList(s), EmptyMapping, <<>>)

\* the body of _get_subject_metadata after a cache miss
FetchMetadata(s) ==
    IF upstream.listDown THEN [md |-> EmptyMapping, reqs |-> <<>>]
    ELSE ResolveLoop(s, VariableList(s), EmptyMapping, <<>>)

\* cache_key in self._metadata_cache
InCache_NonEmpty(s) == cache[s] # <<>> /\ cache[s][1] # EmptyMapping

InCache(s) == cache[s] # <<>>

\* only a non-empty mapping is stored
StoreInCache_NonEmpty(s, md) ==
    IF md = EmptyMapping THEN cache ELSE [cache EXCEPT ![s] = <<md>>]

\* self._metadata_cache[cache_key] = metadata
StoreInCache(s, md) == [cache EXCEPT ![s] = <<md>>]

\* self._metadata_cache.clear()
ClearedCache == [s \in Subjects |-> <<>>]

NoOp == [op |-> "none", s |-> "", wasFresh |-> FALSE, listFetched |-> 0,
         valueFetched |-> <<>>]

\* DataFetcher.get_cache_info
RECURSIVE SumVariables(_)
SumVariables(ss) ==
    IF ss = {} THEN 0
    ELSE LET s == CHOOSE x \in ss : TRUE
         IN  Cardinality(DOMAIN cache[s][1]) + SumVariables(ss \ {s})

\* total_variables counting the cached entries instead of their variables
get_cache_info_Flat ==
    [cached_subjects |-> Cardinality({s \in Subjects : InCache(s)}),
     total_variables |-> Cardinality({s \in Subjects : InCache(s)})]

get_cache_info ==
    [cached_subjects |-> Cardinality({s \in Subjects : InCache(s)}),
     total_variables |-> SumVariables({s \in Subjects : InCache(s)})]

\* DataFetcher._get_subject_metadata
Resolve(s) ==
    /\ IF InCache(s)
       THEN /\ lastRet' = cache[s][1]
            /\ lastOp' = [op |-> "resolve", s |-> s, wasFresh |-> s \in fresh,
                          listFetched |-> 0, valueFetched |-> <<>>]
            /\ UNCHANGED cache
       ELSE /\ lastRet' = FetchMetadata(s).md
            /\ lastOp' = [op |-> "resolve", s |-> s, wasFresh |-> s \in fresh,
                          listFetched |-> 1,
                          valueFetched |-> FetchMetadata(s).reqs]
            /\ cache' = StoreInCache(s, FetchMetadata(s).md)
    /\ prevOp' = lastOp
    /\ prevRet' = lastRet
    /\ fresh' = fresh \ {s}
    /\ UNCHANGED <<upstream, normVars, clientVars, enrichVars>>

ResolveSubject == \E s \in Subjects : Resolve(s)

\* DataFetcher.clear_cache
ClearCache ==
    /\ cache' = ClearedCache
    /\ lastOp' = [NoOp EXCEPT !.op = "clear"]
    /\ prevOp' = lastOp
    /\ lastRet' = EmptyMapping
    /\ prevRet' = lastRet
    /\ fresh' = Subjects
    /\ UNCHANGED <<upstream, normVars, clientVars, enrichVars>>

\* the metadata endpoints start or stop failing
UpstreamStates == [listDown : BOOLEAN, valuesDown : SUBSET {"kon", "ar"}]

UpstreamChange ==
    /\ upstream' \in UpstreamStates \ {upstream}
    /\ UNCHANGED <<cache, lastOp, prevOp, lastRet, prevRet, fresh,
                   normVars, clientVars, enrichVars>>

----------------------------------------------------------------------------
(* DataFetcher: label enrichment of a table *)
(* A table is [cols, n, vals]: the column names in order, the number of    *)
(* rows, and for each column name its cells in row order.  A metadata      *)
(* table is [cols, ids, texts]: the names of its columns and the cells of  *)
(* its id and text columns in row order.                                   *)
Id          == <<"I", "d">>
LabelSuffix == <<"_", "l", "a", "b", "e", "l">>
KonId       == <<"k", "o", "n", "I", "d">>
ArId        == <<"a", "r", "I", "d">>
IdTypeId    == <<"I", "d", "T", "y", "p", "e", "I", "d">>
Varde       == <<"v", "a", "r", "d", "e">>
Sida        == <<"s", "i", "d", "a">>
Per_sida    == <<"p", "e", "r", "_", "s", "i", "d", "a">>
Sidor       == <<"s", "i", "d", "o", "r">>
Kon_label   == <<"k", "o", "n", "_", "l", "a", "b", "e", "l">>
Ar_label    == <<"a", "r", "_", "l", "a", "b", "e", "l">>

EXCLUDED_COLUMNS == {Varde, Sida, Per_sida, Sidor}
special_cases    == (Ar :> Ar)

\* pd.DataFrame()
EmptyTable == [cols |-> <<>>, n |-> 0, vals |-> <<>>]

\* a text cell: the text t of the table of metadata variable key
TextOf(key, t) == [key |-> key, t |-> t]

\* the cell pandas leaves where the lookup finds no label (NaN)
Missing == [key |-> <<>>, t |-> "NaN"]

\* str.lower()
Uppers == <<"A", "B", "C", "D", "E", "F", "G", "H", "I", "J", "K", "L", "M",
            "N", "O", "P", "Q", "R", "S", "T", "U", "V", "W", "X", "Y", "Z">>
Lowers == <<"a", "b", "c", "d", "e", "f", "g", "h", "i", "j", "k", "l", "m",
            "n", "o", "p", "q", "r", "s", "t", "u", "v", "w", "x", "y", "z">>

LowerChar(c) ==
    IF \E i \in 1..Len(Uppers) : Uppers[i] = c
    THEN Lowers[CHOOSE i \in 1..Len(Uppers) : Uppers[i] = c]
    ELSE c

Lower(s) == [i \in 1..Len(s) |-> LowerChar(s[i])]

\* str.endswith(suffix)
EndsWith(s, suffix) ==
    /\ Len(s) >= Len(suffix)
    /\ SubSeq(s, Len(s) - Len(suffix) + 1, Len(s)) = suffix

\* s[:-2]
DropLastTwo(s) == SubSeq(s, 1, Len(s) - 2)

\* str.replace(old, new): every occurrence of old, scanning from the left
RECURSIVE Replace(_, _, _)
Replace(s, old, new) ==
    IF Len(s) < Len(old) THEN s
    ELSE IF SubSeq(s, 1, Len(old)) = old
         THEN new \o Replace(SubSeq(s, Len(old) + 1, Len(s)), old, new)
         ELSE <<Head(s)>> \o Replace(Tail(s), old, new)

\* col in df.columns
HasColumn(d, c) == \E i \in 1..Len(d.cols) : d.cols[i] = c

\* df[c] = series: an existing column is overwritten where it stands, a new
\* one is appended after the last column
SetColumn_Append(d, c, series) ==
    [cols |-> Append(d.cols, c),
     n    |-> d.n,
     vals |-> (c :> series) @@ d.vals]

SetColumn(d, c, series) ==
    [cols |-> IF HasColumn(d, c) THEN d.cols ELSE Append(d.cols, c),
     n    |-> d.n,
     vals |-> (c :> series) @@ d.vals]

\* dict(zip(ids, texts)): a key that repeats keeps the value zipped last
RECURSIVE ZipInto(_, _, _)
ZipInto(ids, texts, acc) ==
    IF ids = <<>> \/ texts = <<>> THEN acc
    ELSE ZipInto(Tail(ids), Tail(texts), (Head(ids) :> Head(texts)) @@ acc)

RECURSIVE ZipDict_FirstWins(_, _)
ZipDict_FirstWins(ids, texts) ==
    IF ids = <<>> \/ texts = <<>> THEN <<>>
    ELSE (Head(ids) :> Head(texts)) @@ ZipDict_FirstWins(Tail(ids), Tail(texts))

ZipDict(ids, texts) == ZipInto(ids, texts, <<>>)

\* Series.map(id_to_text)
MapSeries_Strict(series, id_to_text) ==
    [r \in 1..Len(series) |->
        IF \A q \in 1..Len(series) : series[q] \in DOMAIN id_to_text
        THEN id_to_text[series[r]]
        ELSE Missing]

MapSeries(series, id_to_text) ==
    [r \in 1..Len(series) |->
        IF series[r] \in DOMAIN id_to_text THEN id_to_text[series[r]]
        ELSE Missing]

\* the name of the label column of id_col
LabelName_NoSpecial(id_col) == Replace(id_col, Id, LabelSuffix)

LabelName(id_col) ==
    IF id_col = Ar THEN Ar_label ELSE Replace(id_col, Id, LabelSuffix)

_add_label_column_NoCheck(d, id_col, meta_df) ==
    SetColumn(d, LabelName(id_col),
              MapSeries(d.vals[id_col], ZipDict(meta_df.ids, meta_df.texts)))

_add_label_column(d, id_col, meta_df) ==
    IF "id" \notin meta_df.cols \/ "text" \notin meta_df.cols THEN d
    ELSE SetColumn(d, LabelName(id_col),
                   MapSeries(d.vals[id_col],
                             ZipDict(meta_df.ids, meta_df.texts)))

\* the loop over special_cases
SpecialCases(d, md) ==
    IF HasColumn(d, Ar) /\ special_cases[Ar] \in DOMAIN md
    THEN _add_label_column(d, Ar, md[special_cases[Ar]])
    ELSE d

\* the loop over the columns the table has when the loop starts
RECURSIVE ColumnLoop(_, _, _)
ColumnLoop(columns, d, md) ==
    IF columns = <<>> THEN d
    ELSE LET col_name == Head(columns)
             meta_key == Lower(DropLastTwo(col_name))
         IN  IF col_name \in EXCLUDED_COLUMNS
             THEN ColumnLoop(Tail(columns), d, md)
             ELSE IF col_name \in DOMAIN special_cases
             THEN ColumnLoop(Tail(columns), d, md)
             ELSE IF EndsWith(col_name, Id) /\ meta_key \in DOMAIN md
             THEN ColumnLoop(Tail(columns),
                             _add_label_column(d, col_name, md[meta_key]), md)
             ELSE ColumnLoop(Tail(columns), d, md)

\* df.copy(): the working table is a new object, not the caller's
DfCopy_Alias(d) == [shared |-> TRUE, table |-> d]

DfCopy(d) == [shared |-> FALSE, table |-> d]

\* ret is the table returned, arg the caller's table after the call
_enrich_dataframe(d, md) ==
    LET df_enriched == DfCopy(d)
        special     == SpecialCases(df_enriched.table, md)
        out         == ColumnLoop(special.cols, special, md)
    IN  [ret |-> out, arg |-> IF df_enriched.shared THEN out ELSE d]

MaxPasses == 2       \* times the enrichment is applied in a row

\* the table, or the table the last call returned, is enriched
Enrich ==
    /\ Len(enriched) < MaxPasses
    /\ LET call == _enrich_dataframe(IF enriched = <<>> THEN df
                                     ELSE enriched[Len(enriched)], metadata)
       IN  /\ df' = IF enriched = <<>> THEN call.arg ELSE df
           /\ enriched' = IF enriched = <<>> THEN <<call.ret>>
                          ELSE Append([enriched EXCEPT ![Len(enriched)] = call.arg],
                                      call.ret)
    /\ UNCHANGED <<metadata, normVars, clientVars, cacheVars>>

----------------------------------------------------------------------------
(* DataFetcher.get_data_as_dataframe *)
Dodsorsaker == <<"d", "o", "d", "s", "o", "r", "s", "a", "k", "e", "r">>

\* the cache names subjects and variables by whole strings
SubjectKey(subject) == IF subject = Amning THEN "amning" ELSE "dodsorsaker"

VariableName(v) ==
    CASE v = "kon"    -> Kon
      [] v = "ar"     -> Ar
      [] v = "region" -> Region

\* pd.DataFrame(values) for the values of variable v
ValuesFrame(v, values) ==
    [cols  |-> {"id", "text"},
     ids   |-> [i \in 1..Len(values) |-> values[i].id],
     texts |-> [i \in 1..Len(values) |-> TextOf(VariableName(v), values[i].text)]]

\* the mapping _get_subject_metadata returns, as _enrich_dataframe reads it
MetadataFrames(md) ==
    [k \in {VariableName(v) : v \in DOMAIN md} |->
        LET v == CHOOSE w \in DOMAIN md : VariableName(w) = k
        IN  ValuesFrame(v, md[v])]

\* the fields of record <<i, j>> of the service
DataColumns == <<KonId, Ar, Varde>>

FieldOf(rec, c) ==
    CASE c = KonId -> IF rec[2] <= 2 THEN rec[2] ELSE 99
      [] c = Ar    -> 2018 + rec[1]
      [] c = Varde -> 10 * rec[1] + rec[2]

\* pd.DataFrame(data)
DataFrameOf(data) ==
    [cols |-> DataColumns,
     n    |-> Len(data),
     vals |-> [c \in {DataColumns[k] : k \in 1..Len(DataColumns)} |->
                 [r \in 1..Len(data) |-> FieldOf(data[r], c)]]]

\* the errors a metadata request ends with when its endpoint is down
FailureKinds == {"SocstatsNotFoundError", "SocstatsRateLimitError", "SocstatsAPIError"}

\* the class the except clauses of _get_subject_metadata name
MetadataHandler == "Exception"

\* get_data_as_dataframe up to the first _make_request of its get_data call
GetDataFrameCall ==
    /\ pc = "idle"
    /\ cfg.op = "get_data_as_dataframe"
    /\ IF DataParts.exc # ""
       THEN Raise(DataParts.exc, NoHist)
       ELSE StartRequest(_build_url(DataParts.parts), DataParams,
                         <<>>, <<>>, 0, FALSE)
    /\ UNCHANGED <<cfg, server, normVars, cacheVars, enrichVars>>

\* the table is returned
Framed(d, md, out) ==
    /\ pc' = "framed"
    /\ df' = d
    /\ metadata' = md
    /\ enriched' = <<out>>
    /\ UNCHANGED exc

\* an exception of class e leaves get_data_as_dataframe after get_data returned
FrameRaise(e) ==
    /\ pc' = "raised"
    /\ exc' = e
    /\ UNCHANGED <<enrichVars, cacheVars>>

\* not data
NoData_Never(data) == FALSE

NoData(data) == data = <<>>

\* get_data_as_dataframe after get_data returned result; a metadata request
\* sent to an endpoint that is down ends with an error of class kind
FrameFromResult ==
    /\ pc = "done"
    /\ cfg.op = "get_data_as_dataframe"
    /\ \E kind \in FailureKinds :
         LET s      == SubjectKey(cfg.subject)
             fetch  == FetchMetadata(s)
             failed == \/ upstream.listDown
                       \/ \E i \in 1..Len(fetch.reqs) :
                             fetch.reqs[i] \in upstream.valuesDown
             md     == IF InCache(s) THEN cache[s][1] ELSE fetch.md
         IN  IF result = <<>> THEN FrameRaise("AttributeError")
             ELSE IF NoData(result[1].data)
             THEN /\ Framed(EmptyTable, metadata, EmptyTable)
                  /\ UNCHANGED cacheVars
             ELSE IF ~cfg.include_metadata
             THEN /\ Framed(DataFrameOf(result[1].data), metadata,
                            DataFrameOf(result[1].data))
                  /\ UNCHANGED cacheVars
             ELSE IF ~InCache(s) /\ failed /\ ~CaughtBy(kind, MetadataHandler)
             THEN FrameRaise(kind)
             ELSE /\ Framed(DataFrameOf(result[1].data), MetadataFrames(md),
                            _enrich_dataframe(DataFrameOf(result[1].data),
                                              MetadataFrames(md)).ret)
                  /\ cache' = IF InCache(s) THEN cache ELSE StoreInCache(s, md)
                  /\ lastRet' = md
                  /\ lastOp' = [op |-> "resolve", s |-> s, wasFresh |-> s \in fresh,
                                listFetched |-> IF InCache(s) THEN 0 ELSE 1,
                                valueFetched |-> IF InCache(s) THEN <<>>
                                                 ELSE fetch.reqs]
                  /\ prevOp' = lastOp
                  /\ prevRet' = lastRet
                  /\ fresh' = fresh \ {s}
                  /\ UNCHANGED upstream
    /\ UNCHANGED <<cfg, server, attempt, url, params, result, all_data,
                   page_count, paginated, nRequests, nAttempts, nFailures,
                   nDelays, lastStatus, normVars>>

----------------------------------------------------------------------------
(* Inputs *)
Elems == {PyInt(1), PyInt(12), PyStr(<<"B">>), PyStr(<<"1", ",", "2">>),
          PyStr(<<>>)}

ElemSeqs == UNION {[1..n -> Elems] : n \in 0..MaxElems}

Ranges == {PyRange(a, b) : a \in 9..10, b \in 9..(9 + MaxElems)}

FilterValues ==
    {PyInt(0), PyInt(7), PyInt(-3), PyInt(2018)}
    \cup {PyStr(<<>>), PyStr(<<"B">>), PyStr(<<"1", ",", "2">>)}
    \cup {PyList(xs) : xs \in ElemSeqs}
    \cup {PyTuple(xs) : xs \in ElemSeqs}
    \cup Ranges
    \cup {PyDict, PyFloat, NoneV}

\* the filter values tried in get_data calls
CallValues ==
    {NoneV, PyInt(1), PyStr(<<>>), PyList(<<>>), PyList(<<PyInt(1), PyStr(<<"B">>)>>),
     PyRange(10, 9 + MaxElems), PyRange(10, 10), PyDict, PyFloat}

DefaultCfg ==
    [op |-> "get_data", max_retries |-> <<>>, subject |-> Amning,
     variable |-> Region, matt |-> NoneV, filters |-> <<>>,
     per_sida |-> PerSidaDefault, sida |-> <<>>, auto_paginate |-> TRUE,
     max_pages |-> <<>>, ids |-> NoneV, text_filter |-> NoneV,
     include_metadata |-> FALSE]

Chains == UNION {[1..n -> 0..MaxRecs] : n \in 1..MaxPages}
Servers == [sizes : Chains, endless : BOOLEAN]
TwoPages == [sizes |-> <<1, 1>>, endless |-> FALSE]

\* get_data calls that vary the pagination arguments and the page chain
PagingCalls ==
    {[DefaultCfg EXCEPT !.max_retries = r, !.sida = sd, !.auto_paginate = ap,
                        !.max_pages = mp] :
        r \in {<<1>>, <<2>>}, sd \in {<<>>, <<0>>, <<2>>}, ap \in BOOLEAN,
        mp \in {<<>>} \cup {<<c>> : c \in (-1)..MaxPages}}

\* calls that vary the attempt budget
BudgetCalls ==
    {[DefaultCfg EXCEPT !.op = o, !.max_retries = r, !.auto_paginate = ap,
                        !.per_sida = ps] :
        o \in {"get_data", "get_variable_values"},
        r \in {<<>>} \cup {<<n>> : n \in (-1)..MaxBudget}, ap \in BOOLEAN,
        ps \in {PerSidaDefault, 1}}

\* get_data calls that vary the measure filter and the named filters
FilterCalls ==
    {[DefaultCfg EXCEPT !.max_retries = <<1>>, !.matt = m, !.filters = fs] :
        m \in {NoneV, PyInt(1), PyDict},
        fs \in {<<>>} \cup {<<[key |-> Ar, value |-> v]>> : v \in CallValues}
              \cup {<<[key |-> Ar, value |-> v], [key |-> Kon, value |-> w]>> :
                        v \in CallValues, w \in CallValues}}

\* get_variable_values calls that vary ids and text_filter
LookupCalls ==
    {[DefaultCfg EXCEPT !.op = "get_variable_values", !.max_retries = <<1>>,
                        !.ids = i, !.text_filter = tf] :
        i \in {NoneV, PyList(<<>>), PyStr(<<>>), PyStr(<<"1", ",", "3">>),
               PyList(<<PyInt(1), PyInt(3)>>)},
        tf \in {NoneV, PyStr(<<"b", "o", "t">>)}}

\* tables to enrich and metadata mappings
MaxCols == 2         \* most columns of a table to enrich
MaxRows == 2         \* most rows of a table to enrich

ColumnNames == {KonId, Ar, ArId, Varde, Id, IdTypeId, Kon_label}

ColumnLists ==
    {cs \in UNION {[1..k -> ColumnNames] : k \in 1..MaxCols} :
        \A i, j \in 1..Len(cs) : cs[i] = cs[j] => i = j}

IdPool == <<1, 2, 99>>

RowSeeds == UNION {[1..n -> 0..2] : n \in 0..MaxRows}

OldLabel == [key |-> <<>>, t |-> "old"]

\* the cell of row r of the column at position k
CellOf(name, k, r, seed) ==
    IF name = Kon_label THEN OldLabel
    ELSE IF name = Varde THEN 100 + r
    ELSE IdPool[((seed[r] + k) % 3) + 1]

Table(cs, seed) ==
    [cols |-> cs,
     n    |-> Len(seed),
     vals |-> [c \in {cs[k] : k \in 1..Len(cs)} |->
                 [r \in 1..Len(seed) |->
                    CellOf(c, CHOOSE k \in 1..Len(cs) : cs[k] = c, r, seed)]]]

Tables == {Table(cs, seed) : cs \in ColumnLists, seed \in RowSeeds}

MetaShapes == {"plain", "repeated", "noText"}

MetaTable(key, shape) ==
    CASE shape = "plain" ->
           [cols |-> {"id", "text"}, ids |-> <<1, 2>>,
            texts |-> <<TextOf(key, "A"), TextOf(key, "B")>>]
      [] shape = "repeated" ->
           [cols |-> {"id", "text"}, ids |-> <<1, 2, 1>>,
            texts |-> <<TextOf(key, "A"), TextOf(key, "B"), TextOf(key, "C")>>]
      [] shape = "noText" ->
           [cols |-> {"id"}, ids |-> <<1, 2>>, texts |-> <<>>]

MetaKeys == {Kon, Ar, <<>>, Lower(DropLastTwo(IdTypeId))}

Metadatas ==
    {[k \in K |-> MetaTable(k, shape)] : K \in SUBSET MetaKeys, shape \in MetaShapes}
    \cup {[k \in K \cup {Varde} |-> MetaTable(k, "plain")] : K \in SUBSET MetaKeys}

\* get_data calls and page chains for runs in which every request succeeds
LiveCalls ==
    {[DefaultCfg EXCEPT !.max_retries = r, !.sida = sd, !.auto_paginate = ap,
                        !.max_pages = mp, !.filters = fs] :
        r \in {<<1>>, <<-1>>}, sd \in {<<>>, <<2>>}, ap \in BOOLEAN,
        mp \in {<<>>} \cup {<<c>> : c \in 0..MaxPages},
        fs \in {<<>>, <<[key |-> Ar, value |-> PyDict]>>}}

LiveServers ==
    {[sizes |-> [i \in 1..n |-> 1], endless |-> e] :
        n \in 1..MaxPages, e \in BOOLEAN}

\* get_data_as_dataframe calls and the page chains they meet
FrameCalls ==
    {[DefaultCfg EXCEPT !.op = "get_data_as_dataframe", !.subject = s,
                        !.max_retries = r, !.auto_paginate = ap,
                        !.max_pages = mp, !.include_metadata = im,
                        !.filters = fs] :
        s \in {Amning, Dodsorsaker}, r \in {<<1>>, <<2>>, <<-1>>},
        ap \in BOOLEAN, mp \in {<<>>, <<1>>}, im \in BOOLEAN,
        fs \in {<<>>, <<[key |-> Ar, value |-> PyDict]>>}}

FrameServers ==
    {[sizes |-> z, endless |-> FALSE] :
        z \in {<<0>>, <<MaxRecs>>, <<1, 1>>, <<1, 0, MaxRecs>>}}

----------------------------------------------------------------------------
(* Initial states *)
NormIdle == normIn = NoneV /\ normOut = <<>>

CallIdle ==
    /\ pc = "idle"
    /\ attempt = 0
    /\ url = <<>>
    /\ params = NoParams
    /\ result = <<>>
    /\ all_data = <<>>
    /\ page_count = 0
    /\ exc = ""
    /\ paginated = FALSE
    /\ nRequests = 0
    /\ nAttempts = 0
    /\ nFailures = 0
    /\ nDelays = 0
    /\ lastStatus = 0

ClientIdle == cfg = DefaultCfg /\ server = TwoPages /\ CallIdle

CacheIdle ==
    /\ cache = ClearedCache
    /\ upstream = [listDown |-> FALSE, valuesDown |-> {}]
    /\ lastOp = NoOp
    /\ prevOp = NoOp
    /\ lastRet = EmptyMapping
    /\ prevRet = EmptyMapping
    /\ fresh = Subjects

EnrichIdle == df = EmptyTable /\ metadata = <<>> /\ enriched = <<>>

\* a client is constructed and one call is about to be made on it
Init ==
    /\ \/ cfg \in PagingCalls /\ server \in Servers
       \/ cfg \in BudgetCalls \cup FilterCalls \cup LookupCalls /\ server = TwoPages
    /\ CallIdle
    /\ NormIdle
    /\ CacheIdle
    /\ EnrichIdle

Next ==
    \/ GetDataCall
    \/ GetVariableValuesCall
    \/ RespondSuccess
    \/ RespondNotFound
    \/ RespondRateLimited
    \/ RespondError
    \/ TransportFailure
    \/ ExecLoopEnd

Spec == Init /\ [][Next]_vars

\* a get_data call whose every request is answered with a status below 400
InitLive ==
    /\ cfg \in LiveCalls
    /\ server \in LiveServers
    /\ CallIdle
    /\ NormIdle
    /\ CacheIdle
    /\ EnrichIdle

NextLive ==
    \/ GetDataCall
    \/ RespondSuccess
    \/ ExecLoopEnd

SpecLive == InitLive /\ [][NextLive]_vars /\ WF_vars(NextLive)

\* format_id_list is about to be applied to one value
InitNorm ==
    /\ normIn \in FilterValues
    /\ normOut = <<>>
    /\ ClientIdle
    /\ CacheIdle
    /\ EnrichIdle

NextNorm == Normalize

SpecNorm == InitNorm /\ [][NextNorm]_vars

\* a DataFetcher is constructed over a client
InitCache ==
    /\ CacheIdle
    /\ NormIdle
    /\ ClientIdle
    /\ EnrichIdle

NextCache ==
    \/ ResolveSubject
    \/ ClearCache
    \/ UpstreamChange

SpecCache == InitCache /\ [][NextCache]_vars

\* a DataFetcher is constructed and one get_data_as_dataframe call is about to
\* be made on it, with the metadata endpoints up or down
InitFrame ==
    /\ cfg \in FrameCalls
    /\ server \in FrameServers
    /\ CallIdle
    /\ NormIdle
    /\ cache = ClearedCache
    /\ upstream \in UpstreamStates
    /\ lastOp = NoOp
    /\ prevOp = NoOp
    /\ lastRet = EmptyMapping
    /\ prevRet = EmptyMapping
    /\ fresh = Subjects
    /\ EnrichIdle

NextFrame ==
    \/ GetDataFrameCall
    \/ RespondSuccess
    \/ RespondNotFound
    \/ RespondRateLimited
    \/ RespondError
    \/ TransportFailure
    \/ ExecLoopEnd
    \/ FrameFromResult

SpecFrame == InitFrame /\ [][NextFrame]_vars

\* a table and a metadata mapping are about to be enriched
InitEnrich ==
    /\ df \in Tables
    /\ metadata \in Metadatas
    /\ enriched = <<>>
    /\ NormIdle
    /\ ClientIdle
    /\ CacheIdle

NextEnrich == Enrich

SpecEnrich == InitEnrich /\ [][NextEnrich]_vars

----------------------------------------------------------------------------
(* Properties of the pagination driver *)
Max(a, b) == IF a >= b THEN a ELSE b

RECURSIVE SumSizes(_)
SumSizes(sz) == IF sz = <<>> THEN 0 ELSE Head(sz) + SumSizes(Tail(sz))

\* record <<i, j>> is record j of page i: the order the service lists them in
Before(r, q) == r[1] < q[1] \/ (r[1] = q[1] /\ r[2] < q[2])

IsGetData == cfg.op = "get_data"

\* the first response of the call carries no next-page reference
FirstPageIsLast == ServedPage(PageOf(<<>>, DataParams)).nasta_sida = <<>>

\* C1: auto-pagination without page index and cap over a finite chain returns
\* every record of every page exactly once, in page order and then page-internal
\* order.
C1_AllRecordsInOrder ==
    (IsGetData /\ pc = "done" /\ cfg.auto_paginate /\ cfg.sida = <<>>
        /\ cfg.max_pages = <<>> /\ ~server.endless)
    => /\ result # <<>>
       /\ Len(result[1].data) = SumSizes(server.sizes)
       /\ \A k, l \in 1..Len(result[1].data) :
              k < l => Before(result[1].data[k], result[1].data[l])
       /\ \A i \in 1..NPages : \A j \in 1..server.sizes[i] :
              \E k \in 1..Len(result[1].data) : result[1].data[k] = <<i, j>>

C1_Witness ==
    /\ IsGetData /\ pc = "done" /\ cfg.auto_paginate /\ cfg.sida = <<>>
    /\ cfg.max_pages = <<>> /\ ~server.endless
    /\ NPages >= 3 /\ nRequests = NPages
    /\ Len(result[1].data) >= 4

\* C2: with a cap c set, auto-pagination makes at most max(1, c) page requests
\* and a capped result reports the pages actually fetched.
C2_CapBoundsRequests ==
    (IsGetData /\ cfg.auto_paginate /\ cfg.sida = <<>> /\ cfg.max_pages # <<>>)
    => /\ nRequests <= Max(1, cfg.max_pages[1])
       /\ (pc = "done" /\ paginated) => result[1].sidor = <<nRequests>>

\* C3: get_data makes exactly one page request when auto_paginate is off, or a
\* page index is given, or the first page has no next-page reference.
C3_SingleRequest ==
    (IsGetData /\ pc # "idle" /\ exc # "ValueError"
        /\ (~cfg.auto_paginate \/ cfg.sida # <<>> \/ FirstPageIsLast))
    => /\ nRequests = 1
       /\ pc = "done" => (paginated = FALSE /\ page_count = 0)

C3_Witness ==
    /\ IsGetData /\ pc = "done" /\ cfg.auto_paginate /\ cfg.sida = <<0>>
    /\ cfg.max_pages = <<3>> /\ ~FirstPageIsLast /\ nRequests = 1

\* C4 as stated: every result get_data returns has per_sida equal to the number
\* of returned records and sidor equal to the number of page requests made.
C4_EveryResultAggregate ==
    (IsGetData /\ pc = "done" /\ result # <<>>)
    => /\ result[1].per_sida = <<Len(result[1].data)>>
       /\ result[1].sidor = <<nRequests>>

\* C4: a result that left through the pagination branch has per_sida equal to
\* the number of returned records and sidor equal to the number of page requests
\* made; a result returned without entering that branch is the first response
\* unchanged.
C4_PaginatedResultAggregate ==
    (IsGetData /\ pc = "done" /\ result # <<>>)
    => IF paginated
       THEN /\ result[1].per_sida = <<Len(result[1].data)>>
            /\ result[1].sidor = <<nRequests>>
       ELSE result[1] = ServedPage(PageOf(<<>>, DataParams))

C4_Witness ==
    /\ IsGetData /\ pc = "done" /\ paginated
    /\ cfg.max_pages = <<2>> /\ nRequests = 2 /\ NPages = 3
    /\ result[1].per_sida # <<cfg.per_sida>>

\* the filters are accepted and the executor may make at least one attempt
RequestsCanSucceed == DataParts.exc = "" /\ max_retries >= 1

PositiveCap == cfg.max_pages # <<>> /\ cfg.max_pages[1] >= 1

\* C26: with auto_paginate on and every request answered with success, get_data
\* returns if the page chain is finite or a positive cap is set; with a positive
\* cap c it makes at most c page requests, also on a chain that never ends.
C26_PaginationTerminates ==
    /\ (IsGetData /\ cfg.auto_paginate /\ RequestsCanSucceed
           /\ (~server.endless \/ PositiveCap))
          ~> (pc = "done" /\ result # <<>>)
    /\ [](IsGetData /\ cfg.auto_paginate /\ PositiveCap
            => nRequests <= cfg.max_pages[1])

C26_Witness ==
    /\ IsGetData /\ cfg.auto_paginate /\ server.endless
    /\ cfg.max_pages = <<2>> /\ cfg.sida = <<>>
    /\ pc = "done" /\ nRequests = 2
    /\ result[1].nasta_sida # <<>>

C25_NextPageVerbatim ==
    [][(nRequests >= 1 /\ nRequests' = nRequests + 1)
         => /\ pc = "req" /\ pc' = "req"
            /\ attempt < max_retries
            /\ ServedBody(url, params).nasta_sida # <<>>
            /\ url' = ServedBody(url, params).nasta_sida[1]
            /\ params' = NoParams
            /\ result' = <<ServedBody(url, params)>>]_vars

C25_Witness ==
    /\ IsGetData /\ pc = "req" /\ paginated
    /\ cfg.per_sida = 1
    /\ nRequests = 2
    /\ url = PageUrl(2)
    /\ params = NoParams

----------------------------------------------------------------------------
(* Properties of the request executor *)
\* C5: a response with status 404, 429 or another status >= 400 raises
\* NotFound, RateLimited or SocstatsAPIError, and no attempt follows it.
C5_ErrorStatusEndsCall ==
    [][/\ (nAttempts' = nAttempts + 1 /\ lastStatus' >= 400)
           => /\ pc' = "raised"
              /\ exc' = IF lastStatus' = 404 THEN "SocstatsNotFoundError"
                        ELSE IF lastStatus' = 429 THEN "SocstatsRateLimitError"
                        ELSE "SocstatsAPIError"
       /\ lastStatus >= 400 => nAttempts' = nAttempts]_vars

C5_Witness ==
    /\ pc = "raised" /\ exc = "SocstatsRateLimitError" /\ lastStatus = 429
    /\ nFailures = 2 /\ nAttempts = 3 /\ max_retries = 4

\* every attempt the call in progress has made ended in a transport failure
AllFailed == nAttempts >= 1 /\ nFailures = nAttempts

\* C6: when every attempt fails at transport level the executor makes exactly
\* max_retries attempts, sleeps after each but the last, and then raises
\* SocstatsAPIError; before that the call is still running.
C6_RetriesThenFails ==
    AllFailed
    => IF pc = "req"
       THEN nAttempts < max_retries /\ nDelays = nAttempts /\ attempt = nAttempts
       ELSE /\ pc = "raised"
            /\ exc = "SocstatsAPIError"
            /\ nAttempts = max_retries
            /\ nDelays = max_retries - 1

C6_Witness ==
    /\ pc = "raised" /\ AllFailed /\ cfg.max_retries = <<>>
    /\ nAttempts = MAX_RETRIES /\ nDelays = MAX_RETRIES - 1

\* C24: when attempt k receives a response with status < 400 after k - 1
\* transport failures, the executor returns the body of that response as it
\* is and makes no further attempt: the call made exactly k attempts.
C24_SuccessEndsCall ==
    (pc = "done" /\ result # <<>>)
        => /\ lastStatus \in 1..399
           /\ nAttempts = nFailures + 1
           /\ attempt = nFailures
           /\ nAttempts <= max_retries
           /\ nDelays = nFailures
           /\ ~paginated => result = <<ServedBody(url, params)>>

C24_Witness ==
    /\ pc = "done" /\ ~paginated
    /\ nFailures = 2 /\ nAttempts = 3 /\ max_retries = 3
    /\ result # <<>> /\ result[1].data # <<>>

\* C27 as stated: a call of the executor ends by returning the body of a
\* response with status < 400 that it received, or by raising an APIError;
\* whatever max_retries is, it never returns without an HTTP attempt.
C27_ReturnsBodyOrRaises ==
    /\ pc = "done"
          => (result # <<>> /\ nAttempts >= 1 /\ lastStatus \in 1..399)
    /\ (pc = "raised" /\ nRequests >= 1)
          => (nAttempts >= 1 /\ CaughtBy(exc, "SocstatsAPIError"))

----------------------------------------------------------------------------
(* Properties of the request URL *)
\* the first request of a get_data call is in progress
FirstDataRequest == IsGetData /\ pc = "req" /\ nRequests = 1

\* the path segments of the URL in progress, after the base URL
UrlSegments == Split(SubSeq(url, Len(BASE_URL) + 2, Len(url)), "/")

RECURSIVE ExpectedPairs(_)
ExpectedPairs(fs) ==
    IF fs = <<>> THEN <<>>
    ELSE IF Head(fs).value = NoneV THEN ExpectedPairs(Tail(fs))
    ELSE <<Head(fs).key, format_id_list(Head(fs).value).s>>
            \o ExpectedPairs(Tail(fs))

\* C19: in the URL of the first data request the segments after
\* version/language/subject/'resultat' are key, format_id_list(value) pairs, for
\* the measure filter first and then every named filter whose value is not
\* None, in the order given, also for an empty list, range or string.
C19_FilterPairs ==
    FirstDataRequest =>
        UrlSegments = <<DEFAULT_VERSION, DEFAULT_LANGUAGE, cfg.subject, Resultat>>
                      \o ExpectedPairs(IF cfg.matt = NoneV THEN cfg.filters
                                       ELSE <<[key |-> Matt, value |-> cfg.matt]>>
                                            \o cfg.filters)

----------------------------------------------------------------------------
(* Properties of input validation *)
\* C7: a variable-values lookup given both ids and text_filter raises
\* SocstatsValidationError without making a request.
C7_BothFiltersRejected ==
    (cfg.op = "get_variable_values" /\ cfg.ids # NoneV
        /\ cfg.text_filter # NoneV /\ pc # "idle")
    => (pc = "raised" /\ exc = "SocstatsValidationError" /\ nRequests = 0)

SupportedTypes == {"int", "str", "list", "tuple", "range"}

\* the measure filter or a named filter has a value of unsupported type
HasBadFilter ==
    /\ IsGetData
    /\ \/ cfg.matt.t \notin SupportedTypes \cup {"NoneType"}
       \/ \E i \in 1..Len(cfg.filters) :
              cfg.filters[i].value.t \notin SupportedTypes \cup {"NoneType"}

\* C9 as stated: a filter value of unsupported type makes get_data fail, before
\* any request, with an error that `except SocstatsAPIError` catches.
C9_BadFilterIsAPIError ==
    (HasBadFilter /\ pc # "idle")
    => (pc = "raised" /\ CaughtBy(exc, "SocstatsAPIError") /\ nRequests = 0)

\* C9: a filter value that is not None and of unsupported type makes get_data
\* fail, before any request, with ValueError, which `except SocstatsAPIError`
\* does not catch.
C9_BadFilterIsValueError ==
    (HasBadFilter /\ pc # "idle")
    => /\ pc = "raised"
       /\ exc = "ValueError"
       /\ ~CaughtBy(exc, "SocstatsAPIError")
       /\ nRequests = 0
       /\ nAttempts = 0

C9_Witness ==
    /\ pc = "raised" /\ exc = "ValueError" /\ cfg.matt = PyInt(1)
    /\ Len(cfg.filters) = 2 /\ cfg.filters[1].value = PyRange(10, 9 + MaxElems)
    /\ cfg.filters[2].value = PyDict

----------------------------------------------------------------------------
(* Properties of the normalizer *)
\* the digit a character stands for, -1 if it is not a digit
DigitOf(c) ==
    IF \E d \in 0..9 : Digits[d + 1] = c
    THEN CHOOSE d \in 0..9 : Digits[d + 1] = c
    ELSE -1

\* int(s) for a string of digits with an optional leading minus sign
RECURSIVE ParseNat(_)
ParseNat(s) ==
    IF Len(s) = 1 THEN DigitOf(s[1])
    ELSE 10 * ParseNat(SubSeq(s, 1, Len(s) - 1)) + DigitOf(s[Len(s)])

ParseInt(s) ==
    IF s[1] = "-" THEN 0 - ParseNat(Tail(s)) ELSE ParseNat(s)

IsListLike(x) == x.t \in {"list", "tuple", "range"}

\* the elements of a list-like input in the order the claim names
ElementsOf(x) ==
    IF x.t = "range"
    THEN [i \in 1..Max(0, x.v[2] - x.v[1]) |-> PyInt(x.v[1] + i - 1)]
    ELSE x.v

\* token tok is the string form of element e
TokenIs(tok, e) ==
    IF e.t = "int"
    THEN tok # <<>> /\ (\A i \in 1..Len(tok) : tok[i] \in {"-"} \cup {Digits[d] : d \in 1..10})
         /\ ParseInt(tok) = e.v[1]
    ELSE tok = e.v

CommasIn(s) == Cardinality({i \in 1..Len(s) : s[i] = ","})

RECURSIVE CommasInElems(_)
CommasInElems(es) ==
    IF es = <<>> THEN 0
    ELSE (IF Head(es).t = "str" THEN CommasIn(Head(es).v) ELSE 0)
         + CommasInElems(Tail(es))

\* C8 as stated: the result for a list, tuple or range has one token per
\* element, the string forms of the elements in iteration order.
C8_OneTokenPerElement ==
    (normOut # <<>> /\ IsListLike(normIn) /\ ElementsOf(normIn) # <<>>)
    => /\ normOut[1].exc = ""
       /\ Len(Split(normOut[1].s, ",")) = Len(ElementsOf(normIn))
       /\ \A i \in 1..Len(ElementsOf(normIn)) :
              TokenIs(Split(normOut[1].s, ",")[i], ElementsOf(normIn)[i])

\* C8: a scalar int or str gives its string form unchanged; a list, tuple or
\* range gives the string forms of its elements in iteration order separated by
\* single commas: the empty string for no elements, one token per element when
\* no element's string form contains a comma, and one more token for every
\* comma inside an element otherwise.
C8_Normalized ==
    normOut # <<>>
    => /\ normIn.t = "int"
           => (normOut[1].exc = "" /\ TokenIs(normOut[1].s, normIn))
       /\ normIn.t = "str"
           => (normOut[1].exc = "" /\ normOut[1].s = normIn.v)
       /\ IsListLike(normIn)
           => /\ normOut[1].exc = ""
              /\ ElementsOf(normIn) = <<>> => normOut[1].s = <<>>
              /\ ElementsOf(normIn) # <<>>
                   => Len(Split(normOut[1].s, ","))
                        = Len(ElementsOf(normIn)) + CommasInElems(ElementsOf(normIn))
              /\ (ElementsOf(normIn) # <<>> /\ CommasInElems(ElementsOf(normIn)) = 0)
                   => \A i \in 1..Len(ElementsOf(normIn)) :
                          TokenIs(Split(normOut[1].s, ",")[i], ElementsOf(normIn)[i])

C8_Witness ==
    /\ normOut # <<>>
    /\ normIn = PyRange(9, 9 + MaxElems)
    /\ Len(Split(normOut[1].s, ",")) = MaxElems
    /\ Split(normOut[1].s, ",")[2] = <<"1", "0">>

----------------------------------------------------------------------------
(* Properties of the metadata cache *)
\* C10: a resolve(s) requests the variable list exactly when it is the first
\* resolve of s since construction or the last clear(); two consecutive
\* resolves of s return equal mappings with no request by the second; a
\* resolve right after clear() requests the list again.
C10_FetchOncePerSubject ==
    lastOp.op = "resolve"
    => /\ lastOp.listFetched = (IF lastOp.wasFresh THEN 1 ELSE 0)
       /\ ~lastOp.wasFresh => lastOp.valueFetched = <<>>
       /\ (prevOp.op = "resolve" /\ prevOp.s = lastOp.s)
            => (lastOp.listFetched = 0 /\ lastRet = prevRet)
       /\ prevOp.op = "clear" => lastOp.listFetched = 1

C10_Witness ==
    /\ lastOp.op = "resolve" /\ prevOp.op = "resolve" /\ prevOp.s = lastOp.s
    /\ prevOp.listFetched = 1 /\ lastOp.listFetched = 0
    /\ lastRet = EmptyMapping /\ ~upstream.listDown

\* a step in which resolve(s) missed the cache and stored a mapping for s
MissStep(s) == cache[s] = <<>> /\ cache'[s] # <<>>

\* the names the variable list of s carries
ListedNames(s) == {VariableList(s)[i] : i \in 1..Len(VariableList(s))} \ {""}

\* C11: in a cache-miss resolution whose variable list arrived, a variable
\* whose values request fails is absent from the mapping, every other listed
\* variable with a non-empty table is present with that table, wherever the
\* failing variable stands in the list, and resolve returns the mapping.
C11_ValueFailureSkipsVariable ==
    [][\A s \in Subjects :
          (MissStep(s) /\ ~upstream.listDown)
          => /\ lastRet' = cache'[s][1]
             /\ \A v \in ListedNames(s) :
                   IF v \in upstream.valuesDown
                   THEN v \notin DOMAIN lastRet'
                   ELSE ValueTable(s, v) # <<>>
                          => (v \in DOMAIN lastRet' /\ lastRet'[v] = ValueTable(s, v))]_vars

C11_Witness ==
    /\ lastOp.op = "resolve" /\ lastOp.s = "dodsorsaker" /\ lastOp.listFetched = 1
    /\ lastOp.valueFetched = <<"kon", "region", "ar">>
    /\ upstream.valuesDown = {"kon"}
    /\ DOMAIN lastRet = {"ar"}

\* C12: a cache-miss resolution whose variable-list request fails returns the
\* empty mapping and requests no variable values.
C12_ListFailureGivesEmpty ==
    [][\A s \in Subjects :
          (MissStep(s) /\ upstream.listDown)
          => /\ lastRet' = EmptyMapping
             /\ cache'[s] = <<EmptyMapping>>
             /\ lastOp'.op = "resolve" /\ lastOp'.s = s
             /\ lastOp'.listFetched = 1
             /\ lastOp'.valueFetched = <<>>]_vars

C12_Witness ==
    /\ lastOp.op = "resolve" /\ lastOp.listFetched = 1
    /\ lastOp.valueFetched = <<>> /\ lastRet = EmptyMapping
    /\ upstream.listDown /\ upstream.valuesDown = {}
    /\ cache[lastOp.s] = <<EmptyMapping>>

RECURSIVE SumOver(_, _)
SumOver(f, ss) ==
    IF ss = {} THEN 0
    ELSE LET s == CHOOSE x \in ss : TRUE IN f[s] + SumOver(f, ss \ {s})

\* C20: get_cache_info reports as cached_subjects the number of subjects
\* resolved since construction or the last clear(), as total_variables the sum
\* of the sizes of their cached mappings, and 0 for both right after clear().
C20_CacheInfoCounts ==
    /\ get_cache_info.cached_subjects = Cardinality(Subjects \ fresh)
    /\ \A s \in Subjects \ fresh : cache[s] # <<>>
    /\ get_cache_info.total_variables
         = SumOver([s \in Subjects |->
                       IF cache[s] = <<>> THEN 0 ELSE Cardinality(DOMAIN cache[s][1])],
                   Subjects \ fresh)
    /\ lastOp.op = "clear"
         => (get_cache_info.cached_subjects = 0 /\ get_cache_info.total_variables = 0)
    /\ lastOp.op = "resolve"
         => get_cache_info.total_variables >= Cardinality(DOMAIN lastRet)

C20_Witness ==
    /\ fresh = {}
    /\ get_cache_info.cached_subjects = 2
    /\ get_cache_info.total_variables = 3
    /\ prevOp.op = "resolve" /\ lastOp.op = "resolve"

----------------------------------------------------------------------------
(* Properties of the label enrichment *)
ColumnSet(d) == {d.cols[i] : i \in 1..Len(d.cols)}

PositionOf(d, c) == CHOOSE i \in 1..Len(d.cols) : d.cols[i] = c

CountOf(d, c) == Cardinality({i \in 1..Len(d.cols) : d.cols[i] = c})

\* the metadata variable the rules derive from field f
DerivedVariable(f) == IF f = Ar THEN Ar ELSE Lower(DropLastTwo(f))

\* f is an identifier field whose variable has a table with id and text
Enrichable(f) ==
    /\ f \notin EXCLUDED_COLUMNS
    /\ f = Ar \/ EndsWith(f, Id)
    /\ DerivedVariable(f) \in DOMAIN metadata
    /\ {"id", "text"} \subseteq metadata[DerivedVariable(f)].cols

TableOf(f) == metadata[DerivedVariable(f)]

Occurrences(t, v) == {i \in 1..Len(t.ids) : t.ids[i] = v}

FirstOf(S) == CHOOSE i \in S : \A j \in S : i <= j

LastOf(S) == CHOOSE i \in S : \A j \in S : i >= j

\* g is handled after f: 'ar' comes first, then the columns in their order
HandledAfter(d, g, f) ==
    /\ g # f
    /\ g # Ar
    /\ f = Ar \/ PositionOf(d, g) > PositionOf(d, f)

\* no identifier field handled after f writes the label field of f
KeepsItsLabel(d, f) ==
    \A g \in ColumnSet(d) :
        (Enrichable(g) /\ HandledAfter(d, g, f)) => LabelName(g) # LabelName(f)

\* f with only its trailing 'Id' replaced by '_label'
SuffixLabel(f) == DropLastTwo(f) \o LabelSuffix

\* C14: every field f ending in 'Id' (also one that contains 'Id' elsewhere)
\* whose variable lower(f[:-2]) has a metadata table gets exactly one label
\* field, named f with only the trailing 'Id' replaced by '_label'.
C14_SuffixLabelAdded ==
    enriched # <<>> =>
        \A f \in ColumnSet(df) :
            (EndsWith(f, Id) /\ Enrichable(f))
                => CountOf(enriched[1], SuffixLabel(f)) = 1

\* C15 as stated: when the metadata table repeats an id with different texts,
\* every row carrying that id is labelled with the text of the first
\* occurrence.
C15_FirstOccurrenceWins ==
    enriched # <<>> =>
        \A f \in ColumnSet(df) :
            (Enrichable(f) /\ KeepsItsLabel(df, f)) =>
                \A r \in 1..df.n :
                    Occurrences(TableOf(f), df.vals[f][r]) # {} =>
                        enriched[1].vals[LabelName(f)][r]
                          = TableOf(f).texts[FirstOf(Occurrences(TableOf(f), df.vals[f][r]))]

\* C15: when the metadata table repeats an id with different texts, every row
\* carrying that id is labelled with the text of the last occurrence, for a
\* field whose label field no later field writes.
C15_LastOccurrenceWins ==
    enriched # <<>> =>
        \A f \in ColumnSet(df) :
            (Enrichable(f) /\ KeepsItsLabel(df, f)) =>
                \A r \in 1..df.n :
                    Occurrences(TableOf(f), df.vals[f][r]) # {} =>
                        enriched[1].vals[LabelName(f)][r]
                          = TableOf(f).texts[LastOf(Occurrences(TableOf(f), df.vals[f][r]))]

C15_Witness ==
    /\ enriched # <<>>
    /\ df.cols = <<KonId, Varde>>
    /\ Kon \in DOMAIN metadata
    /\ metadata[Kon].ids = <<1, 2, 1>>
    /\ df.vals[KonId] = <<1, 2>>
    /\ enriched[1].vals[Kon_label] = <<TextOf(Kon, "C"), TextOf(Kon, "B")>>

\* the label of row r of field f is the text of an entry with the row's id,
\* or the missing marker when the table has no such entry
OwnLabel(d, out, f, r) ==
    IF Occurrences(TableOf(f), d.vals[f][r]) # {}
    THEN \E i \in Occurrences(TableOf(f), d.vals[f][r]) :
            out.vals[LabelName(f)][r] = TableOf(f).texts[i]
    ELSE out.vals[LabelName(f)][r] = Missing

\* C16 as stated: for every enrichable field and every row the label field
\* holds the metadata text whose id equals the row's identifier value, and the
\* missing marker when there is none, whatever the other rows hold.
C16_LabelIsOwnText ==
    enriched # <<>> =>
        \A f \in ColumnSet(df) :
            Enrichable(f) =>
                /\ HasColumn(enriched[1], LabelName(f))
                /\ \A r \in 1..df.n : OwnLabel(df, enriched[1], f, r)

\* C16: the same, for every enrichable field whose label field is not also
\* the label field of an identifier field handled after it.
C16_LabelIsWriterText ==
    enriched # <<>> =>
        \A f \in ColumnSet(df) :
            (Enrichable(f) /\ KeepsItsLabel(df, f)) =>
                /\ HasColumn(enriched[1], LabelName(f))
                /\ \A r \in 1..df.n : OwnLabel(df, enriched[1], f, r)

C16_Witness ==
    /\ enriched # <<>>
    /\ df.cols = <<Varde, KonId>>
    /\ df.vals[KonId] = <<99, 1>>
    /\ Kon \in DOMAIN metadata
    /\ metadata[Kon].ids = <<1, 2>>
    /\ "text" \in metadata[Kon].cols
    /\ enriched[1].vals[Kon_label] = <<Missing, TextOf(Kon, "A")>>

\* the label fields the enrichment of d derives
DerivedLabels(d) == {LabelName(f) : f \in {g \in ColumnSet(d) : Enrichable(g)}}

\* out has the rows and the fields of d in their order, then label fields only
SameShape(d, out) ==
    /\ out.n = d.n
    /\ Len(out.cols) >= Len(d.cols)
    /\ SubSeq(out.cols, 1, Len(d.cols)) = d.cols
    /\ \A i \in (Len(d.cols) + 1)..Len(out.cols) : out.cols[i] \in DerivedLabels(d)
    /\ \A i, j \in 1..Len(out.cols) : out.cols[i] = out.cols[j] => i = j

\* one call of the enrichment: the table passed, that table after the call,
\* and the table returned
CallMade == Len(enriched') = Len(enriched) + 1

Passed == IF enriched = <<>> THEN df ELSE enriched[Len(enriched)]

PassedAfter == IF enriched = <<>> THEN df' ELSE enriched'[Len(enriched)]

Got == enriched'[Len(enriched')]

\* C17 as stated: the enrichment only adds label fields: same rows, every
\* original field keeps name, position and value in every row (also a field
\* named like a derived label), label fields come last, input unmodified.
C17_OnlyAddsLabels ==
    [][CallMade =>
         /\ PassedAfter = Passed
         /\ SameShape(Passed, Got)
         /\ \A c \in ColumnSet(Passed) : Got.vals[c] = Passed.vals[c]]_vars

\* C17: the same, except that an original field whose name is the label name
\* derived from an enrichable field is overwritten where it stands with the
\* labels of that field.
C17_OnlyAddsOrRewritesLabels ==
    [][CallMade =>
         /\ PassedAfter = Passed
         /\ SameShape(Passed, Got)
         /\ \A c \in ColumnSet(Passed) \ DerivedLabels(Passed) :
               Got.vals[c] = Passed.vals[c]
         /\ \A f \in ColumnSet(Passed) :
               (Enrichable(f) /\ KeepsItsLabel(Passed, f)) =>
                   \A r \in 1..Passed.n : OwnLabel(Passed, Got, f, r)]_vars

C17_Witness ==
    /\ Len(enriched) = 1
    /\ df.cols = <<Kon_label, KonId>>
    /\ df.n = 2
    /\ Kon \in DOMAIN metadata
    /\ "text" \in metadata[Kon].cols
    /\ enriched[1].cols = df.cols
    /\ enriched[1].vals[KonId] = df.vals[KonId]
    /\ enriched[1].vals[Kon_label] # df.vals[Kon_label]

\* the fields the first enrichment added
AddedFields == ColumnSet(enriched[1]) \ ColumnSet(df)

TextsOf(t) == {t.texts[i] : i \in 1..Len(t.texts)}

\* C21: field 'ar' is labelled from metadata variable 'ar' in a field named
\* 'ar_label', and varde, sida, per_sida and sidor never get a label field,
\* whatever keys the metadata mapping has.
C21_ArAndExcluded ==
    enriched # <<>> =>
        /\ (HasColumn(df, Ar) /\ Enrichable(Ar)) =>
               /\ HasColumn(enriched[1], Ar_label)
               /\ \A r \in 1..df.n :
                     enriched[1].vals[Ar_label][r]
                        \in {Missing} \cup TextsOf(metadata[Ar])
               /\ KeepsItsLabel(df, Ar) =>
                     \A r \in 1..df.n :
                        IF Occurrences(metadata[Ar], df.vals[Ar][r]) # {}
                        THEN \E i \in Occurrences(metadata[Ar], df.vals[Ar][r]) :
                                enriched[1].vals[Ar_label][r] = metadata[Ar].texts[i]
                        ELSE enriched[1].vals[Ar_label][r] = Missing
               /\ enriched[1].vals[Ar] = df.vals[Ar]
        /\ \A a \in AddedFields :
               \/ a = Ar_label /\ HasColumn(df, Ar)
               \/ \E f \in ColumnSet(df) \ ({Ar} \cup EXCLUDED_COLUMNS) :
                     EndsWith(f, Id) /\ a = LabelName(f)
        /\ \A c \in EXCLUDED_COLUMNS \cap ColumnSet(df) :
               /\ AddedFields \cap {c \o LabelSuffix, SuffixLabel(c)} = {}
               /\ enriched[1].vals[c] = df.vals[c]

C21_Witness ==
    /\ enriched # <<>>
    /\ df.cols = <<Ar, Varde>>
    /\ df.n = 2
    /\ {Ar, Varde} \subseteq DOMAIN metadata
    /\ enriched[1].cols = <<Ar, Varde, Ar_label>>
    /\ \E r \in 1..2 : enriched[1].vals[Ar_label][r] = TextOf(Ar, "A")

\* f is an identifier field whose derived variable has a metadata entry
HasEntry(f) ==
    /\ f \notin EXCLUDED_COLUMNS
    /\ f = Ar \/ EndsWith(f, Id)
    /\ DerivedVariable(f) \in DOMAIN metadata

\* C22 as stated: the fields added are exactly the label fields of the fields
\* that are 'ar' or end in 'Id', are not excluded, and whose derived variable
\* has an entry in the metadata mapping.
C22_AddedForEveryEntry ==
    enriched # <<>> =>
        ColumnSet(enriched[1])
          = ColumnSet(df) \cup {LabelName(f) : f \in {g \in ColumnSet(df) : HasEntry(g)}}

\* C22: the same, for the fields whose entry is a table with an id and a text
\* column; an entry without one of them adds no label field.
C22_AddedForEveryUsableEntry ==
    enriched # <<>> =>
        ColumnSet(enriched[1])
          = ColumnSet(df) \cup {LabelName(f) : f \in {g \in ColumnSet(df) : Enrichable(g)}}

C22_Witness ==
    /\ enriched # <<>>
    /\ df.cols = <<KonId, ArId>>
    /\ Kon \in DOMAIN metadata /\ "text" \in metadata[Kon].cols
    /\ Ar \notin DOMAIN metadata
    /\ enriched[1].cols = <<KonId, ArId, Kon_label>>

\* C23: a field named exactly 'Id' gets no label field, whatever the metadata
\* mapping holds, also an entry under the empty name.
C23_BareIdUnenriched ==
    (enriched # <<>> /\ HasColumn(df, Id)) =>
        /\ LabelSuffix \in ColumnSet(enriched[1]) => LabelSuffix \in ColumnSet(df)
        /\ \A a \in AddedFields :
              \E f \in ColumnSet(df) \ {Id} : Enrichable(f) /\ a = LabelName(f)

\* C18: enriching an enriched table again with the same metadata returns an
\* equal table: no field is added and every label field keeps its values.
C18_Idempotent ==
    Len(enriched) >= 2 =>
        \A k \in 2..Len(enriched) : enriched[k] = enriched[1]

C18_Witness ==
    /\ Len(enriched) = 2
    /\ Len(enriched[1].cols) > Len(df.cols)
    /\ df.n > 0
    /\ enriched[2] = enriched[1]

----------------------------------------------------------------------------
(* Properties of get_data_as_dataframe *)
IsFrameCall == cfg.op = "get_data_as_dataframe"

\* table out holds the records of data, one row each, in their order
HoldsEveryRow(out, data) ==
    /\ out.n = Len(data)
    /\ data # <<>> =>
          \A k \in 1..Len(DataColumns) :
              /\ HasColumn(out, DataColumns[k])
              /\ out.vals[DataColumns[k]]
                   = [r \in 1..Len(data) |-> FieldOf(data[r], DataColumns[k])]

\* C13: with include_metadata=True, once the primary data fetch has returned
\* the call returns a table holding every fetched row, whichever metadata
\* requests fail and with whichever error; an error leaves the call only while
\* the primary data fetch (get_data) is running.
C13_OnlyFetchErrorsEscape ==
    [][(IsFrameCall /\ cfg.include_metadata)
         => /\ pc = "done"
                 => /\ pc' = "framed"
                    /\ exc' = ""
                    /\ HoldsEveryRow(enriched'[1],
                                     IF result = <<>> THEN <<>> ELSE result[1].data)
            /\ (pc # "raised" /\ pc' = "raised") => pc \in {"idle", "req"}]_vars

\* a step in which resolve(s) ran
ResolveStep(s) ==
    /\ upstream' = upstream
    /\ lastOp'.op = "resolve"
    /\ lastOp'.s = s

\* C28: a resolution that hit failures is cached like any other: what the
\* first resolve(s) returned is stored, and every later resolve(s) returns the
\* stored mapping with no request, also after the upstream recovered, until
\* clear() empties the cache.
C28_FailureIsCached ==
    [][\A s \in Subjects :
          ResolveStep(s) =>
              IF cache[s] = <<>>
              THEN cache'[s] = <<lastRet'>>
              ELSE /\ lastRet' = cache[s][1]
                   /\ lastOp'.listFetched = 0
                   /\ lastOp'.valueFetched = <<>>
                   /\ cache' = cache]_vars

C28_Witness ==
    /\ lastOp.op = "resolve" /\ prevOp.op = "resolve"
    /\ lastOp.s = "dodsorsaker" /\ prevOp.s = "dodsorsaker"
    /\ prevOp.listFetched = 1 /\ lastOp.listFetched = 0
    /\ lastOp.valueFetched = <<>>
    /\ DOMAIN lastRet = {"ar"} /\ lastRet = prevRet
    /\ ~upstream.listDown /\ upstream.valuesDown = {}

\* the metadata requests the call has issued: the variable list, then values
MetadataRequests == lastOp.listFetched + Len(lastOp.valueFetched)

\* C30: in get_data_as_dataframe metadata is requested only after the last
\* page request of the data fetch, only with include_metadata=True, and not
\* at all when the data fetch fails or returns no record, in which case an
\* empty table is returned.
C30_MetadataAfterData ==
    /\ [](IsFrameCall =>
            /\ MetadataRequests > 0 =>
                  /\ pc = "framed"
                  /\ cfg.include_metadata
                  /\ result # <<>> /\ result[1].data # <<>>
                  /\ lastOp.listFetched = 1
            /\ (pc = "framed" /\ result[1].data = <<>>) =>
                  (enriched = <<EmptyTable>> /\ MetadataRequests = 0)
            /\ (pc = "framed" /\ cfg.include_metadata /\ result[1].data # <<>>) =>
                  lastOp.listFetched = 1)
    /\ [][(IsFrameCall /\ nRequests' # nRequests) => MetadataRequests = 0]_vars

C30_Witness ==
    /\ IsFrameCall /\ cfg.include_metadata
    /\ pc = "framed"
    /\ nRequests = 3
    /\ lastOp.listFetched = 1
    /\ lastOp.valueFetched = <<"ar", "kon">>
    /\ upstream.valuesDown = {"kon"}
    /\ enriched[1].n = 1 + MaxRecs

\* the page the service served last in this call
LastServed == ServedPage(PageOf(url, params))

\* the call was one that enters the pagination branch
FollowsLinks ==
    /\ IsGetData /\ cfg.auto_paginate /\ cfg.sida = <<>>
    /\ ServedPage(1).nasta_sida # <<>>

\* as many pages were requested as max_pages allows, and the last has a link
StoppedAtCap ==
    /\ cfg.max_pages # <<>>
    /\ nRequests >= cfg.max_pages[1]
    /\ LastServed.nasta_sida # <<>>

\* C31: when get_data returns from a call that enters the pagination branch
\* (auto_paginate on, no sida, first page with a next-page link), the result
\* carries nasta_sida exactly when pagination stopped at the max_pages cap with
\* a further page linked, and then it is the link of the last page fetched; a
\* result obtained by following the chain to its end carries none.
C31_NextLinkIffCapped ==
    (FollowsLinks /\ pc = "done") =>
        /\ paginated
        /\ result[1].nasta_sida # <<>> <=> StoppedAtCap
        /\ result[1].nasta_sida = LastServed.nasta_sida
        /\ (nRequests = NPages /\ ~server.endless) => result[1].nasta_sida = <<>>

C31_Witness ==
    /\ FollowsLinks /\ pc = "done"
    /\ NPages = 3 /\ ~server.endless
    /\ cfg.max_pages = <<2>> /\ nRequests = 2
    /\ result[1].nasta_sida = <<PageUrl(3)>>

====
